---- MODULE Spec2Model ----
(***************************************************************************)
(* Model of the curve-analysis routines of nanotrappy/utils/viz.py:        *)
(*   Viz.get_min_trap                      (minimum locator)               *)
(*   Viz.get_coord_trap_outside_structure  (boundary locator)              *)
(*   Viz.get_trapfreq                      (frequency estimator)           *)
(*   Viz.optimize                          (parameter sweep)               *)
(*   Viz.optimize_gui                      (parameter sweep with signals)  *)
(*                                                                         *)
(* Arrays are sequences; the source's 0-based index i is element i + 1,    *)
(* read through At.  Curve values are integers in units of 1e-4, so the    *)
(* prominence threshold 5e-4 is the integer 5.  A float that may be NaN    *)
(* is a record [nan, v].                                                   *)
(***************************************************************************)
EXTENDS Integers, Sequences, FiniteSets, TLC

VARIABLES
    pc,               \* "start" before the call, "done" after it
    y_outside,        \* get_min_trap argument: truncated coordinates
    trap_outside,     \* get_min_trap argument: truncated 1D trap
    ndim,             \* np.ndim(trap_outside)
    local_minima,     \* local variable of get_min_trap: the find_peaks result
    min_res,          \* the outcome of get_min_trap
    axis_is_trapping, \* axis == self.trapping_axis
    surface,          \* type(self.simul.surface).__name__
    edge_no_surface,  \* argument of get_coord_trap_outside_structure
    mf_index,         \* int(mf + self.simul.atomicsystem.f)
    coord,            \* set_axis_from_axis(axis, self.simul)
    trap,             \* compute_potential_1D(...)[:, mf_index], real part
    CP,               \* self.simul.CP[:, mf_index]
    index_edge,       \* local variable of get_coord_trap_outside_structure
    out,              \* outcome of get_coord_trap_outside_structure
    polyfit_env,      \* what np.polyfit and the derivatives do in get_trapfreq
    freq_out,         \* outcome of get_trapfreq
    simul,            \* self.simul: axis, beam profiles, behaviour of np.polyfit
    powers,           \* the powers last set with self.simul.trap.set_powers
    args,             \* arguments of optimize: ymin, Pmin1, Pmax1, ...
    sw,               \* locals of optimize: Prange1, Prange2, yidx, i, j, res_*,
                      \* and pot, min_idx, depth, height, height_idx and the
                      \* fit range <<idx_left, idx_right>> of the last pass
    filled,           \* the cells stored so far, in order: <<i, j, P1, P2>>,
                      \* P1, P2 the powers set when the cell's curve was read
    run,              \* 1 during the first call of optimize, 2 during the next
    first_out,        \* outcome of the first call
    opt_out,          \* outcome of the current call of optimize
    calls,            \* the calls made to self.simul during the current call
    first_calls,      \* the calls made to self.simul during the first call
    signals,          \* the signals optimize_gui emitted, in order
    optim_res,        \* self.optim_res
    at_finished       \* self.optim_res as a slot run by `finished` reads it

vars == <<pc, y_outside, trap_outside, ndim, local_minima, min_res, axis_is_trapping, surface,
          edge_no_surface, mf_index, coord, trap, CP, index_edge, out,
          polyfit_env, freq_out, simul, powers, args, sw, filled, run,
          first_out, opt_out, calls, first_calls, signals, optim_res,
          at_finished>>

minVars == <<y_outside, trap_outside, ndim, local_minima, min_res>>
boundaryVars == <<axis_is_trapping, surface, edge_no_surface, mf_index,
                  coord, trap, CP, index_edge, out>>
freqVars == <<polyfit_env, freq_out>>
sweepVars == <<simul, powers, args, sw, filled, run, first_out, opt_out,
               calls, first_calls>>
guiVars == <<signals, optim_res, at_finished>>

----------------------------------------------------------------------------
(* Bounds of the model                                                     *)

CurveLen == 14      \* samples of the curve given to get_min_trap
MaxDips == 3        \* samples of that curve that leave the background
CoordLen == 8       \* samples of the axis given to the boundary locator
MaxPower == 3       \* largest Pmax1, Pmax2 given to optimize
MaxSpikes == 3      \* samples of the proximity curve off the background

(* Program constants                                                       *)

PeakDistance == 10         \* find_peaks(..., distance=10, ...)
MinProminence == 5         \* find_peaks(..., prominence=5e-4), unit 1e-4
EdgeExclusionIndex == 5    \* local_minima[0][0] > 5
ProximityHeight == 10      \* find_peaks(-CP, height=10)
BenchmarkRow == 10         \* if i == 10: self.benchmark.emit(...)
OutlierLimit == 100000     \* abs(depth) > 10, abs(height) > 10, unit 1e-4
PositionScale == 10        \* res_pos *= 1e9: axis unit 1e-8 m, grid unit 1e-9 m

----------------------------------------------------------------------------
(* numpy helpers                                                           *)

NaN == [nan |-> TRUE, v |-> 0]
Num(n) == [nan |-> FALSE, v |-> n]

At(a, i) == a[i + 1]

\* a[i] with Python's wrap-around for a negative index
PyAt(a, i) == IF i < 0 THEN a[Len(a) + i + 1] ELSE a[i + 1]

Abs(n) == IF n < 0 THEN -n ELSE n
Max2(a, b) == IF a > b THEN a ELSE b
Min2(a, b) == IF a < b THEN a ELSE b

Neg(a) == [i \in 1..Len(a) |-> -a[i]]

\* a[lo:hi] for 0 <= lo, hi
Slice(a, lo, hi) == SubSeq(a, lo + 1, Min2(hi, Len(a)))

\* a[lo:]
SliceFrom(a, lo) == SubSeq(a, lo + 1, Len(a))

\* a - c, element-wise
Shift(a, c) == [i \in 1..Len(a) |-> a[i] - c]

\* np.argmin: 0-based index of the first occurrence of the smallest value
ArgMinLast(a) ==
    (CHOOSE i \in 1..Len(a) :
        /\ \A k \in 1..Len(a) : a[i] <= a[k]
        /\ \A k \in (i + 1)..Len(a) : a[k] > a[i]) - 1
ArgMin(a) ==
    (CHOOSE i \in 1..Len(a) :
        /\ \A k \in 1..Len(a) : a[i] <= a[k]
        /\ \A k \in 1..(i - 1) : a[k] > a[i]) - 1

\* a[idx] for an index array idx (fancy indexing)
Take(a, idx) == [k \in 1..Len(idx) |-> At(a, idx[k])]

\* the elements of s at the positions in keep, in order
RECURSIVE KeepFrom(_, _, _)
KeepFrom(s, keep, k) ==
    IF k > Len(s) THEN <<>>
    ELSE IF k \in keep THEN <<s[k]>> \o KeepFrom(s, keep, k + 1)
    ELSE KeepFrom(s, keep, k + 1)

KeepAt(s, keep) == KeepFrom(s, keep, 1)

----------------------------------------------------------------------------
(* scipy.signal.find_peaks, as called by the source                        *)

\* the look-ahead loop of _local_maxima_1d: next sample unequal to x[i]
RECURSIVE ScanAhead(_, _, _)
ScanAhead(x, i, a) ==
    IF a < Len(x) - 1 /\ At(x, a) = At(x, i) THEN ScanAhead(x, i, a + 1) ELSE a

\* the main loop of _local_maxima_1d from sample i: midpoints of the maxima
RECURSIVE LocalMaximaFrom(_, _)
LocalMaximaFrom(x, i) ==
    IF i >= Len(x) - 1 THEN <<>>
    ELSE IF At(x, i - 1) < At(x, i)
         THEN LET a == ScanAhead(x, i, i + 1)
              IN  IF At(x, a) < At(x, i)
                  THEN <<(i + (a - 1)) \div 2>> \o LocalMaximaFrom(x, a + 1)
                  ELSE LocalMaximaFrom(x, i + 1)
         ELSE LocalMaximaFrom(x, i + 1)

local_maxima_1d(x) == LocalMaximaFrom(x, 1)

\* _select_by_peak_distance: peaks are visited from the highest priority to
\* the lowest (a stable argsort read from its end, so the later peak first
\* among equals); a kept peak removes every peak closer than the distance
RECURSIVE SelectFrom(_, _, _, _, _)
SelectFrom(peaks, priority, distance, todo, keep) ==
    IF todo = {} THEN keep
    ELSE LET j == CHOOSE c \in todo : \A k \in todo :
                      \/ priority[c] > priority[k]
                      \/ (priority[c] = priority[k] /\ c >= k)
         IN  IF j \notin keep
             THEN SelectFrom(peaks, priority, distance, todo \ {j}, keep)
             ELSE SelectFrom(peaks, priority, distance, todo \ {j},
                      keep \ {k \in 1..Len(peaks) :
                                 k # j /\ Abs(peaks[j] - peaks[k]) < distance})

select_by_peak_distance(peaks, priority, distance) ==
    SelectFrom(peaks, priority, distance, 1..Len(peaks), 1..Len(peaks))

\* _peak_prominences, left scan: <<left_min, left_base>> from sample i down
RECURSIVE LeftScan(_, _, _, _, _)
LeftScan(x, peak, i, lmin, lbase) ==
    IF 0 <= i /\ At(x, i) <= At(x, peak)
    THEN IF At(x, i) < lmin
         THEN LeftScan(x, peak, i - 1, At(x, i), i)
         ELSE LeftScan(x, peak, i - 1, lmin, lbase)
    ELSE <<lmin, lbase>>

\* _peak_prominences, right scan
RECURSIVE RightScan(_, _, _, _, _)
RightScan(x, peak, i, rmin, rbase) ==
    IF i <= Len(x) - 1 /\ At(x, i) <= At(x, peak)
    THEN IF At(x, i) < rmin
         THEN RightScan(x, peak, i + 1, At(x, i), i)
         ELSE RightScan(x, peak, i + 1, rmin, rbase)
    ELSE <<rmin, rbase>>

\* _peak_prominences for one peak
peak_prominence(x, peak) ==
    LET l == LeftScan(x, peak, peak, At(x, peak), peak)
        r == RightScan(x, peak, peak, At(x, peak), peak)
    IN  [prominence |-> At(x, peak) - Max2(l[1], r[1]),
         left_base |-> l[2], right_base |-> r[2]]

\* find_peaks(x, distance=distance, prominence=prominence)
find_peaks_prominence(x, distance, prominence) ==
    LET all == local_maxima_1d(x)
        far == KeepAt(all, select_by_peak_distance(all, Take(x, all), distance))
        pr == [k \in 1..Len(far) |-> peak_prominence(x, far[k])]
        keep == {k \in 1..Len(far) : prominence <= pr[k].prominence}
    IN  [peaks |-> KeepAt(far, keep),
         prominences |-> KeepAt([k \in 1..Len(far) |-> pr[k].prominence], keep),
         left_bases |-> KeepAt([k \in 1..Len(far) |-> pr[k].left_base], keep)]

\* find_peaks(x, height=height)
find_peaks_height(x, height) ==
    LET all == local_maxima_1d(x)
    IN  KeepAt(all, {k \in 1..Len(all) : height <= At(x, all[k])})

----------------------------------------------------------------------------
(* Viz.get_min_trap                                                        *)

MinResult(idx, pos, depth, height, left) ==
    [raised |-> "none", idx |-> idx, pos |-> pos, depth |-> depth,
     height |-> height, left |-> left]

\* return np.nan, np.nan, 0, 0, np.nan
NoneResultLeftZero == MinResult(NaN, NaN, 0, 0, Num(0))
NoneResult == MinResult(NaN, NaN, 0, 0, NaN)

\* raise TypeError(...): nothing is returned
MinTypeError ==
    [raised |-> "TypeError", idx |-> NaN, pos |-> NaN, depth |-> 0,
     height |-> 0, left |-> NaN]

\* find_peaks(-trap_outside, distance=10, prominence=5e-4)
find_minima(trap_) == find_peaks_prominence(Neg(trap_), PeakDistance, MinProminence)

\* local_minima before the find_peaks call
NoPeaks == [peaks |-> <<>>, prominences |-> <<>>, left_bases |-> <<>>]

\* local_minima[0][0] > 5
AcceptSingleAtBoundary(lm) == lm.peaks[1] >= EdgeExclusionIndex
AcceptSingle(lm) == lm.peaks[1] > EdgeExclusionIndex

\* the return of the branch of exactly one minimum away from the edge
OneMinimumPreviousSample(y, trap_, lm) ==
    MinResult(Num(lm.peaks[1]), Num(PyAt(y, lm.peaks[1] - 1)),
              At(trap_, lm.peaks[1]), -lm.prominences[1], Num(lm.left_bases[1]))
OneMinimum(y, trap_, lm) ==
    MinResult(Num(lm.peaks[1]), Num(At(y, lm.peaks[1])),
              At(trap_, lm.peaks[1]), -lm.prominences[1], Num(lm.left_bases[1]))

\* the return of the branch of several minima
LowestMinimumFirstProminence(y, trap_, lm) ==
    LET arg == ArgMin(Take(trap_, lm.peaks))
    IN  MinResult(Num(At(lm.peaks, arg)), Num(At(y, At(lm.peaks, arg))),
                  At(trap_, At(lm.peaks, arg)), -lm.prominences[1],
                  Num(lm.left_bases[1]))
LowestMinimum(y, trap_, lm) ==
    LET arg == ArgMin(Take(trap_, lm.peaks))
    IN  MinResult(Num(At(lm.peaks, arg)), Num(At(y, At(lm.peaks, arg))),
                  At(trap_, At(lm.peaks, arg)), -At(lm.prominences, arg),
                  Num(lm.left_bases[1]))

\* the branches on len(local_minima[0])
MinTrapFromEdgeRuleForAll(y, trap_, lm) ==
    LET n == Len(lm.peaks)
    IN  IF n = 0 THEN NoneResult
        ELSE IF n = 1 /\ AcceptSingle(lm) THEN OneMinimum(y, trap_, lm)
        ELSE IF n = 1 /\ ~AcceptSingle(lm) THEN NoneResult
        ELSE IF LowestMinimum(y, trap_, lm).idx.v <= EdgeExclusionIndex
        THEN NoneResult
        ELSE LowestMinimum(y, trap_, lm)
MinTrapFrom(y, trap_, lm) ==
    LET n == Len(lm.peaks)
    IN  IF n = 0 THEN NoneResult
        ELSE IF n = 1 /\ AcceptSingle(lm) THEN OneMinimum(y, trap_, lm)
        ELSE IF n = 1 /\ ~AcceptSingle(lm) THEN NoneResult
        ELSE LowestMinimum(y, trap_, lm)

get_min_trap(y, trap_, nd) ==
    IF nd >= 3 THEN MinTypeError ELSE MinTrapFrom(y, trap_, find_minima(trap_))

----------------------------------------------------------------------------
(* Viz.get_coord_trap_outside_structure                                    *)

NoEdge == [given |-> FALSE, v |-> 0]
Edge(e) == [given |-> TRUE, v |-> e]

\* what a call leaves: the last value of the local index_edge (<<>> when it
\* was never bound; a scalar index is a one-element sequence, the two-peak
\* index array has two elements) and either the returned 4-tuple or an error
Returned(ie, mf, edge, y, t) ==
    [index_edge |-> ie, raised |-> "none", ret |-> <<mf, edge, y, t>>]
Raised(err) == [index_edge |-> <<>>, raised |-> err, ret |-> <<>>]

peaks_CP(cp) == find_peaks_height(Neg(cp), ProximityHeight)

\* axis != self.trapping_axis, and the branch of no proximity peak
NoTruncation(mf, coord_, trap_) == Returned(<<0>>, mf, 0, coord_, trap_)

\* the NoSurface branch with an edge given
ExplicitEdgeNotAnchored(mf, e, coord_, trap_) ==
    LET ie == ArgMin([i \in 1..Len(coord_) |-> Abs(coord_[i] - e)])
    IN  Returned(<<ie>>, mf, e, SliceFrom(coord_, ie), SliceFrom(trap_, ie))
ExplicitEdge(mf, e, coord_, trap_) ==
    LET ie == ArgMin([i \in 1..Len(coord_) |-> Abs(coord_[i] - e)])
    IN  Returned(<<ie>>, mf, e, Shift(SliceFrom(coord_, ie), e),
                 SliceFrom(trap_, ie))

\* the branch of one proximity peak
OnePeakEdgeAtPeak(mf, peaks, coord_, trap_) ==
    LET ie == peaks[1]
        edge == PyAt(coord_, ie)
    IN  Returned(<<ie>>, mf, edge, Shift(SliceFrom(coord_, ie), edge),
                 SliceFrom(trap_, ie))
OnePeak(mf, peaks, coord_, trap_) ==
    LET ie == peaks[1]
        edge == PyAt(coord_, ie - 1)
    IN  Returned(<<ie>>, mf, edge, Shift(SliceFrom(coord_, ie), edge),
                 SliceFrom(trap_, ie))

\* the branch of two proximity peaks
TwoPeaksCurveFromEdge(mf, peaks, coord_, trap_) ==
    LET ie == peaks
        edge == PyAt(coord_, ie[1] - 1)
    IN  Returned(ie, mf, edge, Shift(Slice(coord_, ie[1], ie[2]), edge),
                 Slice(trap_, ie[1] - 1, ie[2]))
TwoPeaks(mf, peaks, coord_, trap_) ==
    LET ie == peaks
        edge == PyAt(coord_, ie[1] - 1)
    IN  Returned(ie, mf, edge, Shift(Slice(coord_, ie[1], ie[2]), edge),
                 Slice(trap_, ie[1], ie[2]))

\* the dispatch on len(peaks[0])
StructureCaseLastTwo(n) ==
    IF n = 0 THEN "none" ELSE IF n = 1 THEN "one" ELSE "two"
StructureCase(n) ==
    IF n = 0 THEN "none" ELSE IF n = 1 THEN "one"
    ELSE IF n = 2 THEN "two" ELSE "too many"

get_coord_trap_outside_structure(trapping, surf, edge_arg, mf, coord_, trap_, cp) ==
    IF ~trapping THEN NoTruncation(mf, coord_, trap_)
    ELSE IF trapping /\ surf = "NoSurface"
    THEN IF ~edge_arg.given THEN Raised("ValueError")
         ELSE ExplicitEdge(mf, edge_arg.v, coord_, trap_)
    ELSE LET peaks == peaks_CP(cp)
             case == StructureCase(Len(peaks))
         IN  IF case = "none" THEN NoTruncation(mf, coord_, trap_)
             ELSE IF case = "one" THEN OnePeak(mf, peaks, coord_, trap_)
             ELSE IF case = "two" THEN TwoPeaks(mf, peaks, coord_, trap_)
             ELSE Raised("ValueError")

----------------------------------------------------------------------------
(* Viz.get_trapfreq                                                        *)

\* the tuple a get_min_trap result is returned as
AsTuple(r) == <<r.idx, r.pos, r.depth, r.height, r.left>>

\* a, b, c, d = t raises ValueError unless t has exactly as many elements
UnpackFails(t, targets) == Len(t) # targets

\* largest r with r * r <= n, by bisection on lo <= r < hi
RECURSIVE SqrtBetween(_, _, _)
SqrtBetween(n, lo, hi) ==
    IF hi - lo <= 1 THEN lo
    ELSE LET mid == (lo + hi) \div 2
         IN  IF mid * mid <= n THEN SqrtBetween(n, mid, hi)
             ELSE SqrtBetween(n, lo, mid)

ISqrt(n) == SqrtBetween(n, 0, Min2(n, 46340) + 1)

\* np.sqrt(moment2 * kB * mK / mass) / (2 pi): NaN for a negative curvature;
\* the positive factors are the unit of the frequency
FreqOf(moment2) == IF moment2 < 0 THEN NaN ELSE Num(ISqrt(moment2))

FreqReturned(value, degrees) ==
    [raised |-> "none", value |-> value, degrees |-> degrees]
FreqRaised(err, degrees) ==
    [raised |-> err, value |-> NaN, degrees |-> degrees]

\* np.concatenate((trap_outside, trap_outside, trap_outside))
Tile3(a) == a \o a \o a

\* np.concatenate((y - (y[-1] - y[0]), y, y + (y[-1] - y[0])))
TileAxis3(y) ==
    LET period == y[Len(y)] - y[1]
    IN  Shift(y, period) \o y \o Shift(y, -period)

\* lines 641-653: the fits and the frequency at position trap_pos; env.fit40
\* and env.fit20 say whether np.polyfit raises LinAlgError for that degree,
\* env.der2_fit is the second derivative of the fitted polynomial
FrequencyAt(y, trap_pos, env) ==
    IF env.fit40 = "LinAlgError" /\ env.fit20 = "LinAlgError"
    THEN FreqRaised("LinAlgError", <<40, 20>>)
    ELSE LET degrees == IF env.fit40 = "LinAlgError" THEN <<40, 20>> ELSE <<40>>
             index_min == ArgMin([i \in 1..Len(y) |-> Abs(y[i] - trap_pos)])
             moment2 == At(env.der2_fit, index_min)
         IN  FreqReturned(FreqOf(moment2), degrees)

get_trapfreq(y, trap_, nd, env) ==
    IF nd >= 3 THEN FreqRaised("TypeError", <<>>)
    ELSE LET first == get_min_trap(y, trap_, nd)
         IN  IF UnpackFails(AsTuple(first), 4) THEN FreqRaised("ValueError", <<>>)
             ELSE IF first.pos.nan
             THEN LET second == get_min_trap(TileAxis3(y), Tile3(trap_), nd)
                  IN  IF UnpackFails(AsTuple(second), 4)
                      THEN FreqRaised("ValueError", <<>>)
                      ELSE IF second.pos.nan THEN FreqReturned(Num(0), <<>>)
                      ELSE FrequencyAt(y, second.pos.v, env)
             ELSE FrequencyAt(y, first.pos.v, env)

----------------------------------------------------------------------------
(* Viz.optimize                                                            *)

\* np.arange(lo, hi, step) for integers, step > 0
RECURSIVE Arange(_, _, _)
Arange(lo, hi, step) ==
    IF lo >= hi THEN <<>> ELSE <<lo>> \o Arange(lo + step, hi, step)

\* list(reversed(a))
Reversed(a) == [k \in 1..Len(a) |-> a[Len(a) + 1 - k]]

\* a 2-D float array: its shape and its cells, indexed from 0
Zeros(r, c) ==
    [shape |-> <<r, c>>,
     cells |-> [ij \in (0..(r - 1)) \X (0..(c - 1)) |-> Num(0)]]

\* res[i, j] = v
SetCell(g, i, j, v) == [g EXCEPT !.cells[<<i, j>>] = v]

\* res *= k
Scaled(g, k) ==
    [g EXCEPT !.cells = [ij \in DOMAIN g.cells |->
        IF g.cells[ij].nan THEN NaN ELSE Num(g.cells[ij].v * k)]]

\* nanotrappy.utils.utils.nan_to_zeros, for one array: every NaN becomes 0
nan_to_zeros(g) ==
    [g EXCEPT !.cells = [ij \in DOMAIN g.cells |->
        IF g.cells[ij].nan THEN Num(0) ELSE g.cells[ij]]]

\* nanotrappy.utils.utils.find_nearest(array, value): index of the sample
\* nearest to value; value2 is twice the value, so that halves stay integers
find_nearest2(array, value2) ==
    ArgMin([k \in 1..Len(array) |-> Abs(2 * array[k] - value2)])

find_nearest(array, value) == find_nearest2(array, 2 * value)

\* self.simul.total_potential()[:, 0], real part, with powers P: every beam
\* contributes its profile times its power
total_potential(sim, P) ==
    [k \in 1..Len(sim.axis) |-> P[1] * sim.U1[k] + P[2] * sim.U2[k]]

\* lines 765-766: the calls a cell makes to self.simul, each with the powers
\* that are set when it is made
CellCallsPotentialFirst(before, P) ==
    <<[op |-> "total_potential", powers |-> before],
      [op |-> "set_powers", powers |-> P]>>
CellCalls(before, P) ==
    <<[op |-> "set_powers", powers |-> P],
      [op |-> "total_potential", powers |-> P]>>

\* the curve analysed in a cell: the powers are set, then the potential read
CellPotentialBeforeSetPowers(sim, before, P, yidx) ==
    SliceFrom(total_potential(sim, before), yidx)
CellPotential(sim, before, P, yidx) ==
    SliceFrom(total_potential(sim, P), yidx)

\* the leading coefficient of the least-squares parabola through the window,
\* up to a positive factor that depends on the window length only (its sign
\* and its zero are exact); t is the centred sample number, doubled
QuadraticCurvature(w) ==
    LET n == Len(w)
        t(k) == 2 * k - (n + 1)
        RECURSIVE SumT2(_), Weighted(_)
        SumT2(k) == IF k = 0 THEN 0 ELSE t(k) * t(k) + SumT2(k - 1)
        Weighted(k) ==
            IF k = 0 THEN 0
            ELSE (n * t(k) * t(k) - SumT2(n)) * w[k] + Weighted(k - 1)
    IN  Weighted(n)

\* np.gradient twice on a parabola a x^2 + b x + c sampled evenly: 2a inside,
\* 1.5a one sample from an end, a at an end; here times 2
GradientFactor2(index, n) ==
    IF index = 0 \/ index = n - 1 THEN 2
    ELSE IF index = 1 \/ index = n - 2 THEN 3
    ELSE 4

\* lines 770-788: the frequency of a cell, r being the get_min_trap result
CellFrequency(sim, P, yout, pot, r) ==
    IF r.left.nan
    THEN [raised |-> "none", trap_freq |-> Num(0), fit_range |-> <<>>]
    ELSE LET min_pos == r.pos.v
             height_pos == At(yout, r.left.v)
             idx_left == find_nearest2(yout, 2 * min_pos - (min_pos - height_pos))
             idx_right == find_nearest2(yout, 2 * min_pos + (min_pos - height_pos))
             window == Slice(pot, idx_left, idx_right)
             index_min == ArgMin([k \in 1..Len(yout) |-> Abs(yout[k] - min_pos)])
         IN  IF Len(window) = 0
             THEN [raised |-> "TypeError", trap_freq |-> NaN,
                   fit_range |-> <<idx_left, idx_right>>]
             ELSE IF P \in sim.lstsq_fails
             THEN [raised |-> "LinAlgError", trap_freq |-> NaN,
                   fit_range |-> <<idx_left, idx_right>>]
             ELSE LET a == IF Len(window) < 3 THEN sim.deficient
                           ELSE QuadraticCurvature(window)
                      moment2 == GradientFactor2(index_min, Len(yout)) * a
                  IN  [raised |-> "none", trap_freq |-> FreqOf(moment2),
                       fit_range |-> <<idx_left, idx_right>>]

\* lines 792-798: outlier suppression, then the absolute value
SuppressedAtLimit(v) == Abs(IF Abs(v) >= OutlierLimit THEN 0 ELSE v)
Suppressed(v) == Abs(IF Abs(v) > OutlierLimit THEN 0 ELSE v)

\* lines 767-802: what one cell stores, or the exception that leaves it
CellResult(sim, P, yout, pot) ==
    LET r == get_min_trap(yout, pot, 1)
        f == CellFrequency(sim, P, yout, pot, r)
    IN  [raised |-> IF UnpackFails(AsTuple(r), 5) THEN "ValueError" ELSE f.raised,
         min_idx |-> r.idx,
         min_pos |-> r.pos,
         height_idx |-> r.left,
         fit_range |-> f.fit_range,
         raw_depth |-> r.depth,
         raw_height |-> r.height,
         depth |-> Num(Suppressed(r.depth)),
         height |-> Num(Suppressed(r.height)),
         trap_freq |-> f.trap_freq]

\* lines 750-759: the locals before the loops
ControlRange1NotReversed(a) == Arange(a.Pmin1, a.Pmax1, a.Pstep1)
ControlRange1(a) == Reversed(Arange(a.Pmin1, a.Pmax1, a.Pstep1))

AllocateTransposed(n1, n2) == Zeros(n2, n1)
Allocate(n1, n2) == Zeros(n1, n2)

OptimizeLocals(sim, a) ==
    LET Prange1 == ControlRange1(a)
        Prange2 == Arange(a.Pmin2, a.Pmax2, a.Pstep2)
    IN  [Prange1 |-> Prange1, Prange2 |-> Prange2,
         res_pos |-> Allocate(Len(Prange1), Len(Prange2)),
         res_depth |-> Allocate(Len(Prange1), Len(Prange2)),
         res_height |-> Allocate(Len(Prange1), Len(Prange2)),
         res_freq |-> Allocate(Len(Prange1), Len(Prange2)),
         yidx |-> find_nearest(sim.axis, a.ymin),
         i |-> 0, j |-> 0, depth |-> 0, height |-> 0, pot |-> <<>>,
         min_idx |-> NaN, height_idx |-> NaN, fit_range |-> <<>>]

\* lines 804-807: the grids returned
SanitizedButPosition(l) ==
    <<Scaled(l.res_pos, PositionScale), nan_to_zeros(l.res_depth),
      nan_to_zeros(l.res_height), nan_to_zeros(l.res_freq)>>
Sanitized(l) ==
    <<Scaled(nan_to_zeros(l.res_pos), PositionScale), nan_to_zeros(l.res_depth),
      nan_to_zeros(l.res_height), nan_to_zeros(l.res_freq)>>

OptReturned(grids) == [raised |-> "none", ret |-> grids]
OptRaised(err) == [raised |-> err, ret |-> <<>>]

----------------------------------------------------------------------------
(* Inputs                                                                  *)

\* a curve of n samples: the background value, except on dips
CurveOf(n, background, dips) ==
    [i \in 1..n |-> IF (i - 1) \in DOMAIN dips THEN dips[i - 1] ELSE background]

\* an evenly sampled increasing axis of n samples
AxisOf(n, origin, step) == [i \in 1..n |-> origin + step * (i - 1)]

TrapLevels == {-10, -5, -4, 6}      \* values a sample takes off the background 0
AxisOrigins == {7}
AxisStep == 3

DipSets(n, most) == {S \in SUBSET (0..(n - 1)) : Cardinality(S) <= most}

CPLevels == {-20, -10, -9}          \* proximity values off the background 0
CoordOrigins == {-20, 0}
CoordStep == 10
EdgeArgs == {NoEdge} \cup {Edge(e) : e \in {-25, 0, 5, 14, 26, 50, 75}}
MfIndices == {0, 2}

\* the potential along the axis for one mf state
PotentialOf(n, mf) == [i \in 1..n |-> (i - 4) * (i - 4) - 3 * mf]

----------------------------------------------------------------------------
(* The minimum locator on its own: any curve, one call                     *)

Pending == [index_edge |-> <<>>, raised |-> "pending", ret |-> <<>>]

\* get_trapfreq not called
NoPolyfit == [fit40 |-> "ok", fit20 |-> "ok", der2_fit |-> <<>>]
FreqPending == FreqRaised("pending", <<>>)
FreqIdle == polyfit_env = NoPolyfit /\ freq_out = FreqPending

\* optimize not called
NoSimul == [axis |-> <<>>, U1 |-> <<>>, U2 |-> <<>>, lstsq_fails |-> {},
            deficient |-> 0]
NoArgs == [ymin |-> 0, Pmin1 |-> 0, Pmax1 |-> 0, Pstep1 |-> 1,
           Pmin2 |-> 0, Pmax2 |-> 0, Pstep2 |-> 1]
NoLocals == [Prange1 |-> <<>>, Prange2 |-> <<>>, res_pos |-> Zeros(0, 0),
             res_depth |-> Zeros(0, 0), res_height |-> Zeros(0, 0),
             res_freq |-> Zeros(0, 0), yidx |-> 0, i |-> 0, j |-> 0,
             depth |-> 0, height |-> 0, pot |-> <<>>, min_idx |-> NaN,
             height_idx |-> NaN, fit_range |-> <<>>]
OptPending == OptRaised("pending")

\* optimize_gui not called: no signal yet, no attribute optim_res
NoAttribute == [set |-> FALSE, value |-> <<>>]
NotFinished == [emitted |-> FALSE, seen |-> NoAttribute]
GuiIdle ==
    /\ signals = <<>>
    /\ optim_res = NoAttribute
    /\ at_finished = NotFinished

SweepIdle ==
    /\ simul = NoSimul
    /\ powers = <<0, 0>>
    /\ args = NoArgs
    /\ sw = NoLocals
    /\ filled = <<>>
    /\ run = 1
    /\ first_out = OptPending
    /\ opt_out = OptPending
    /\ calls = <<>>
    /\ first_calls = <<>>
    /\ GuiIdle

InitMin ==
    /\ pc = "start"
    /\ \E o \in AxisOrigins : y_outside = AxisOf(CurveLen, o, AxisStep)
    /\ \/ /\ ndim = 1
          /\ \E S \in DipSets(CurveLen, MaxDips) : \E d \in [S -> TrapLevels] :
                 trap_outside = CurveOf(CurveLen, 0, d)
       \/ /\ ndim = 3                \* the samples of a 3-D array are not read
          /\ trap_outside = <<>>
    /\ local_minima = NoPeaks
    /\ min_res = NoneResult
    /\ axis_is_trapping = FALSE
    /\ surface = "NoSurface"
    /\ edge_no_surface = NoEdge
    /\ mf_index = 0
    /\ coord = <<>>
    /\ trap = <<>>
    /\ CP = <<>>
    /\ index_edge = <<>>
    /\ out = Pending
    /\ FreqIdle
    /\ SweepIdle

GetMinTrap ==
    /\ pc = "start"
    /\ local_minima' = IF ndim >= 3 THEN NoPeaks ELSE find_minima(trap_outside)
    /\ min_res' = IF ndim >= 3 THEN MinTypeError
                  ELSE MinTrapFrom(y_outside, trap_outside, local_minima')
    /\ pc' = "done"
    /\ UNCHANGED <<y_outside, trap_outside, ndim>>
    /\ UNCHANGED boundaryVars
    /\ UNCHANGED freqVars
    /\ UNCHANGED sweepVars
    /\ UNCHANGED guiVars

NextMin == GetMinTrap

SpecMin == InitMin /\ [][NextMin]_vars

----------------------------------------------------------------------------
(* The boundary locator on its own: any configuration, one call            *)

InitBoundary ==
    /\ pc = "start"
    /\ axis_is_trapping \in BOOLEAN
    /\ edge_no_surface \in EdgeArgs
    /\ mf_index \in MfIndices
    /\ \E o \in CoordOrigins : coord = AxisOf(CoordLen, o, CoordStep)
    /\ trap = PotentialOf(CoordLen, mf_index)
    /\ \/ /\ surface = "NoSurface"       \* no Casimir-Polder interaction
          /\ CP = CurveOf(CoordLen, 0, <<>>)
       \/ /\ surface = "Surface"
          /\ \E S \in DipSets(CoordLen, MaxSpikes) : \E d \in [S -> CPLevels] :
                 CP = CurveOf(CoordLen, 0, d)
    /\ index_edge = <<>>
    /\ out = Pending
    /\ y_outside = <<>>
    /\ trap_outside = <<>>
    /\ ndim = 1
    /\ local_minima = NoPeaks
    /\ min_res = NoneResult
    /\ FreqIdle
    /\ SweepIdle

GetCoordTrapOutsideStructure ==
    /\ pc = "start"
    /\ out' = get_coord_trap_outside_structure(axis_is_trapping, surface,
                  edge_no_surface, mf_index, coord, trap, CP)
    /\ index_edge' = out'.index_edge
    /\ pc' = "done"
    /\ UNCHANGED <<axis_is_trapping, surface, edge_no_surface, mf_index,
                   coord, trap, CP>>
    /\ UNCHANGED minVars
    /\ UNCHANGED freqVars
    /\ UNCHANGED sweepVars
    /\ UNCHANGED guiVars

NextBoundary == GetCoordTrapOutsideStructure

SpecBoundary == InitBoundary /\ [][NextBoundary]_vars

----------------------------------------------------------------------------
(* The frequency estimator on its own: any curve, any fit, one call        *)

\* second derivatives of the fitted polynomial along the axis: confining
\* everywhere, confining on the right half only, flat
Der2Fits(n) ==
    {[i \in 1..n |-> 9], [i \in 1..n |-> 2 * i - n], [i \in 1..n |-> 0]}

PolyfitEnvs(n) ==
    {[fit40 |-> f[1], fit20 |-> f[2], der2_fit |-> d] :
        f \in {<<"ok", "ok">>, <<"LinAlgError", "ok">>,
               <<"LinAlgError", "LinAlgError">>},
        d \in Der2Fits(n)}

InitFreq ==
    /\ pc = "start"
    /\ \E o \in AxisOrigins : y_outside = AxisOf(CurveLen, o, AxisStep)
    /\ ndim = 1
    /\ \E S \in DipSets(CurveLen, MaxDips - 1) : \E d \in [S -> TrapLevels] :
           trap_outside = CurveOf(CurveLen, 0, d)
    /\ polyfit_env \in PolyfitEnvs(CurveLen)
    /\ freq_out = FreqPending
    /\ local_minima = NoPeaks
    /\ min_res = NoneResult
    /\ axis_is_trapping = FALSE
    /\ surface = "NoSurface"
    /\ edge_no_surface = NoEdge
    /\ mf_index = 0
    /\ coord = <<>>
    /\ trap = <<>>
    /\ CP = <<>>
    /\ index_edge = <<>>
    /\ out = Pending
    /\ SweepIdle

GetTrapfreq ==
    /\ pc = "start"
    /\ freq_out' = get_trapfreq(y_outside, trap_outside, ndim, polyfit_env)
    /\ pc' = "done"
    /\ UNCHANGED <<polyfit_env, local_minima, min_res>>
    /\ UNCHANGED <<y_outside, trap_outside, ndim>>
    /\ UNCHANGED boundaryVars
    /\ UNCHANGED sweepVars
    /\ UNCHANGED guiVars

NextFreq == GetTrapfreq

SpecFreq == InitFreq /\ [][NextFreq]_vars

----------------------------------------------------------------------------
(* The sweep: any two beams, any ranges, optimize called twice             *)

\* beam profiles, per unit of power, off the background 0: a deep minimum; a
\* shallow one right of a barrier; two minima; a minimum near the start of
\* the axis; a beam that is off; a minimum with a shoulder right of a barrier
ProfileDips ==
    { (8 :> -50000),
      (3 :> 6) @@ (8 :> -3),
      (2 :> -60000) @@ (12 :> -40000),
      (4 :> -7),
      <<>>,
      (4 :> 6) @@ (6 :> -5) @@ (8 :> -6) @@ (9 :> -5) }

Profiles == {CurveOf(CurveLen, 0, d) : d \in ProfileDips}

\* the power pairs for which np.polyfit raises LinAlgError, if it is called
LstsqFailures == {{}, {<<1, 1>>, <<2, 0>>}}

\* the leading coefficient np.polyfit gives on fewer than three samples
DeficientFits == {-1, 1}

YMins == {0, 13}
InitialPowers == <<1, 2>>

\* the provider, the arguments and the state before the first call
SweepSetup ==
    /\ pc = "start"
    /\ \E U1 \in Profiles, U2 \in Profiles, F \in LstsqFailures,
          a \in DeficientFits :
           /\ F = {} \/ a = 1
           /\ simul = [axis |-> AxisOf(CurveLen, 7, AxisStep), U1 |-> U1,
                       U2 |-> U2, lstsq_fails |-> F, deficient |-> a]
    /\ powers = InitialPowers
    /\ \E ymin \in YMins, Pmin1 \in {0, 1}, Pmax1 \in 0..MaxPower,
          Pmax2 \in 0..MaxPower :
           /\ Pmin1 <= Pmax1
           /\ args = [ymin |-> ymin, Pmin1 |-> Pmin1, Pmax1 |-> Pmax1,
                      Pstep1 |-> 1, Pmin2 |-> 0, Pmax2 |-> Pmax2, Pstep2 |-> 1]
    /\ sw = NoLocals
    /\ filled = <<>>
    /\ run = 1
    /\ first_out = OptPending
    /\ opt_out = OptPending
    /\ calls = <<>>
    /\ first_calls = <<>>
    /\ FreqIdle
    /\ y_outside = <<>>
    /\ trap_outside = <<>>
    /\ ndim = 1
    /\ local_minima = NoPeaks
    /\ min_res = NoneResult
    /\ axis_is_trapping = FALSE
    /\ surface = "NoSurface"
    /\ edge_no_surface = NoEdge
    /\ mf_index = 0
    /\ coord = <<>>
    /\ trap = <<>>
    /\ CP = <<>>
    /\ index_edge = <<>>
    /\ out = Pending

InitSweep == SweepSetup /\ GuiIdle

SweepFrame ==
    /\ UNCHANGED <<simul, args>>
    /\ UNCHANGED minVars
    /\ UNCHANGED boundaryVars
    /\ UNCHANGED freqVars

OptimizeFrame == SweepFrame /\ UNCHANGED guiVars

\* lines 750-765: ranges, grids, start index
OptimizeStart ==
    /\ pc = "start"
    /\ sw' = OptimizeLocals(simul, args)
    /\ filled' = <<>>
    /\ pc' = "loop"
    /\ UNCHANGED <<powers, run, first_out, opt_out, calls, first_calls>>
    /\ OptimizeFrame

CellLeft == sw.i < Len(sw.Prange1) /\ sw.j < Len(sw.Prange2)

\* lines 767-802: the locals after a pass that stored cell [l.i, l.j]; the
\* loop variables go on to next_i, next_j
StoreCell(l, c, pot, next_i, next_j) ==
    [l EXCEPT
        !.res_pos = SetCell(@, l.i, l.j, c.min_pos),
        !.res_depth = SetCell(@, l.i, l.j, c.depth),
        !.res_height = SetCell(@, l.i, l.j, c.height),
        !.res_freq = SetCell(@, l.i, l.j, c.trap_freq),
        !.depth = c.raw_depth,
        !.height = c.raw_height,
        !.pot = pot,
        !.min_idx = c.min_idx,
        !.height_idx = c.height_idx,
        !.fit_range = IF c.height_idx.nan THEN @ ELSE c.fit_range,
        !.i = next_i,
        !.j = next_j]

\* lines 766-802: one pass of the inner loop
OptimizeCell ==
    /\ pc = "loop"
    /\ CellLeft
    /\ LET P == <<At(sw.Prange1, sw.i), At(sw.Prange2, sw.j)>>
           yout == SliceFrom(simul.axis, sw.yidx)
           last == sw.j + 1 = Len(sw.Prange2)
       IN  \E pot \in {CellPotential(simul, powers, P, sw.yidx)} :
           \E c \in {CellResult(simul, P, yout, pot)} :
           /\ powers' = P
           /\ calls' = calls \o CellCalls(powers, P)
           /\ IF c.raised # "none"
              THEN /\ opt_out' = OptRaised(c.raised)
                   /\ pc' = "raised"
                   /\ UNCHANGED <<sw, filled>>
              ELSE /\ sw' = StoreCell(sw, c, pot,
                                      IF last THEN sw.i + 1 ELSE sw.i,
                                      IF last THEN 0 ELSE sw.j + 1)
                   /\ filled' = Append(filled,
                                       <<sw.i, sw.j, powers'[1], powers'[2]>>)
                   /\ UNCHANGED <<pc, opt_out>>
    /\ UNCHANGED <<run, first_out, first_calls>>
    /\ OptimizeFrame

\* lines 804-807: after the loops
OptimizeReturn ==
    /\ pc = "loop"
    /\ ~CellLeft
    /\ opt_out' = OptReturned(Sanitized(sw))
    /\ pc' = "done"
    /\ UNCHANGED <<powers, sw, filled, run, first_out, calls, first_calls>>
    /\ OptimizeFrame

\* the caller calls optimize again with the same arguments
OptimizeAgain ==
    /\ pc \in {"done", "raised"}
    /\ run = 1
    /\ run' = 2
    /\ first_out' = opt_out
    /\ first_calls' = calls
    /\ calls' = <<>>
    /\ opt_out' = OptPending
    /\ sw' = NoLocals
    /\ filled' = <<>>
    /\ pc' = "start"
    /\ UNCHANGED powers
    /\ OptimizeFrame

NextSweep ==
    \/ OptimizeStart
    \/ OptimizeCell
    \/ OptimizeReturn
    \/ OptimizeAgain

SpecSweep == InitSweep /\ [][NextSweep]_vars

----------------------------------------------------------------------------
(* The sweep with signals: optimize, then optimize_gui, same arguments     *)

\* self.optim_res left by an earlier sweep over empty ranges
StaleResult == [set |-> TRUE, value |-> Sanitized(NoLocals)]

InitGui ==
    /\ SweepSetup
    /\ args.ymin = 0
    /\ signals = <<>>
    /\ optim_res \in {NoAttribute, StaleResult}
    /\ at_finished = NotFinished

\* the inner loop of row l.i is over
GuiRowDoneAfterOneCell(l) == l.j >= Min2(1, Len(l.Prange2))
GuiRowDone(l) == l.j >= Len(l.Prange2)

\* lines 866-868: the signals emitted after the inner loop of row i, each
\* with the numbers of cells stored and of provider calls made so far
RowSignals(i, stored, made) ==
    <<[name |-> "_signal", stored |-> stored, made |-> made]>>
    \o (IF i = BenchmarkRow
        THEN <<[name |-> "benchmark", stored |-> stored, made |-> made]>>
        ELSE <<>>)

\* lines 869-870: the grids of optimize_gui after the loops
GuiGridsPositionUnscaled(l) ==
    <<nan_to_zeros(l.res_pos), nan_to_zeros(l.res_depth),
      nan_to_zeros(l.res_height), nan_to_zeros(l.res_freq)>>
GuiGrids(l) ==
    <<Scaled(nan_to_zeros(l.res_pos), PositionScale), nan_to_zeros(l.res_depth),
      nan_to_zeros(l.res_height), nan_to_zeros(l.res_freq)>>

\* lines 871-872: finished is emitted, then self.optim_res is assigned; a
\* slot run by the emission reads self.optim_res as it is at that moment
Finish(before, grids) ==
    [at_finished |-> [emitted |-> TRUE, seen |-> before],
     optim_res |-> [set |-> TRUE, value |-> grids]]

\* the caller calls optimize_gui with the arguments of the call of optimize
CallGui ==
    /\ pc \in {"done", "raised"}
    /\ run = 1
    /\ run' = 2
    /\ first_out' = opt_out
    /\ first_calls' = calls
    /\ calls' = <<>>
    /\ opt_out' = OptPending
    /\ sw' = NoLocals
    /\ filled' = <<>>
    /\ pc' = "gui_start"
    /\ UNCHANGED powers
    /\ UNCHANGED guiVars
    /\ SweepFrame

\* lines 810-821: ranges, grids, start index
GuiStart ==
    /\ pc = "gui_start"
    /\ sw' = OptimizeLocals(simul, args)
    /\ filled' = <<>>
    /\ pc' = "gui_loop"
    /\ UNCHANGED <<powers, run, first_out, opt_out, calls, first_calls>>
    /\ UNCHANGED guiVars
    /\ SweepFrame

\* lines 823-864: one pass of the inner loop
GuiCell ==
    /\ pc = "gui_loop"
    /\ sw.i < Len(sw.Prange1)
    /\ ~GuiRowDone(sw)
    /\ LET P == <<At(sw.Prange1, sw.i), At(sw.Prange2, sw.j)>>
           yout == SliceFrom(simul.axis, sw.yidx)
       IN  \E pot \in {CellPotential(simul, powers, P, sw.yidx)} :
           \E c \in {CellResult(simul, P, yout, pot)} :
           /\ powers' = P
           /\ calls' = calls \o CellCalls(powers, P)
           /\ IF c.raised # "none"
              THEN /\ opt_out' = OptRaised(c.raised)
                   /\ pc' = "raised"
                   /\ UNCHANGED <<sw, filled>>
              ELSE /\ sw' = StoreCell(sw, c, pot, sw.i, sw.j + 1)
                   /\ filled' = Append(filled,
                                       <<sw.i, sw.j, powers'[1], powers'[2]>>)
                   /\ UNCHANGED <<pc, opt_out>>
    /\ UNCHANGED <<run, first_out, first_calls>>
    /\ UNCHANGED guiVars
    /\ SweepFrame

\* lines 866-868: after the inner loop of a row
GuiRowEnd ==
    /\ pc = "gui_loop"
    /\ sw.i < Len(sw.Prange1)
    /\ GuiRowDone(sw)
    /\ signals' = signals \o RowSignals(sw.i, Len(filled), Len(calls))
    /\ sw' = [sw EXCEPT !.i = sw.i + 1, !.j = 0]
    /\ UNCHANGED <<powers, filled, run, first_out, opt_out, calls, first_calls>>
    /\ UNCHANGED <<pc, optim_res, at_finished>>
    /\ SweepFrame

\* lines 869-873: after the loops
GuiFinish ==
    /\ pc = "gui_loop"
    /\ sw.i >= Len(sw.Prange1)
    /\ \E grids \in {GuiGrids(sw)} :
           /\ signals' = Append(signals, [name |-> "finished",
                             stored |-> Len(filled), made |-> Len(calls)])
           /\ at_finished' = Finish(optim_res, grids).at_finished
           /\ optim_res' = Finish(optim_res, grids).optim_res
           /\ opt_out' = OptReturned(grids)
    /\ pc' = "gui_done"
    /\ UNCHANGED <<powers, sw, filled, run, first_out, calls, first_calls>>
    /\ SweepFrame

NextGui ==
    \/ OptimizeStart
    \/ OptimizeCell
    \/ OptimizeReturn
    \/ CallGui
    \/ GuiStart
    \/ GuiCell
    \/ GuiRowEnd
    \/ GuiFinish

SpecGui == InitGui /\ [][NextGui]_vars

----------------------------------------------------------------------------
(* Properties of get_min_trap, under SpecMin                               *)

MinDone == pc = "done" /\ ndim = 1

\* the indices peak detection found on the curve given to get_min_trap
DetectedSet == {local_minima.peaks[k] : k \in 1..Len(local_minima.peaks)}

\* the prominence of the minimum of the curve at index m
ProminenceAt(m) == peak_prominence(Neg(trap_outside), m).prominence

IsSentinel(r) ==
    /\ r.raised = "none"
    /\ r.idx = NaN /\ r.pos = NaN /\ r.depth = 0 /\ r.height = 0 /\ r.left = NaN

\* C1: on a 1-D curve where peak detection finds no minimum, get_min_trap
\* returns (NaN, NaN, 0, 0, NaN) and raises nothing
C1_NoMinimumIsNone ==
    (MinDone /\ Len(local_minima.peaks) = 0) => IsSentinel(min_res)

\* a curve that has a local minimum which detection rejects
C1_Witness ==
    /\ MinDone
    /\ Len(local_minima.peaks) = 0
    /\ Len(local_maxima_1d(Neg(trap_outside))) > 0
    /\ IsSentinel(min_res)

\* C2: a single detected minimum at index m > 5 is returned with index m,
\* position axis[m] and depth curve[m]
C2_SingleMinimumExact ==
    MinDone =>
        LET d == local_minima
        IN  (Len(d.peaks) = 1 /\ d.peaks[1] > 5) =>
                LET m == d.peaks[1]
                IN  /\ min_res.raised = "none"
                    /\ min_res.idx = Num(m)
                    /\ min_res.pos = Num(At(y_outside, m))
                    /\ min_res.depth = At(trap_outside, m)
                    /\ d.prominences[1] >= MinProminence

C2_Witness ==
    /\ MinDone
    /\ Len(local_minima.peaks) = 1
    /\ local_minima.peaks[1] > 5
    /\ min_res.idx = Num(local_minima.peaks[1])
    /\ min_res.pos.v # local_minima.peaks[1]
    /\ min_res.depth < 0

\* C3: a single detected minimum at index <= 5 (5 included) is spurious:
\* the 'none' sentinel is returned
C3_SingleMinimumNearEdgeIsNone ==
    MinDone =>
        LET d == local_minima
        IN  (Len(d.peaks) = 1 /\ d.peaks[1] <= 5) => IsSentinel(min_res)

\* the boundary case: the single minimum sits at index 5
C3_Witness ==
    /\ MinDone
    /\ Len(local_minima.peaks) = 1
    /\ local_minima.peaks[1] = 5
    /\ IsSentinel(min_res)

\* C4: with several detected minima the one of lowest curve value is
\* returned, the smallest index among equally low ones, and position, depth
\* and prominence are those of that candidate
C4_LowestFirstOccurrence ==
    MinDone =>
        LET d == local_minima
            cand == {d.peaks[k] : k \in 1..Len(d.peaks)}
        IN  Len(d.peaks) > 1 =>
                /\ min_res.raised = "none"
                /\ ~min_res.idx.nan
                /\ LET m == min_res.idx.v
                   IN  /\ m \in cand
                       /\ \A q \in cand :
                              /\ At(trap_outside, m) <= At(trap_outside, q)
                              /\ At(trap_outside, q) = At(trap_outside, m) => m <= q
                       /\ min_res.pos = Num(At(y_outside, m))
                       /\ min_res.depth = At(trap_outside, m)
                       /\ Abs(min_res.height) = ProminenceAt(m)

\* two detected minima share the lowest value and the first one is returned
C4_Witness ==
    /\ MinDone
    /\ Len(local_minima.peaks) > 1
    /\ ~min_res.idx.nan
    /\ \E q \in DetectedSet :
           /\ q > min_res.idx.v
           /\ At(trap_outside, q) = At(trap_outside, min_res.idx.v)

\* C5 as stated: the barrier height is the prominence of the reported
\* minimum as a non-negative magnitude (0 for 'none', >= 0 otherwise)
C5_HeightNonNegative ==
    MinDone =>
        /\ min_res.height >= 0
        /\ min_res.idx.nan => min_res.height = 0
        /\ ~min_res.idx.nan => min_res.height = ProminenceAt(min_res.idx.v)

\* C5 amended: the barrier height is the prominence of the reported minimum
\* with its sign reversed: 0 for 'none', minus the prominence and so at most
\* -5e-4 whenever a minimum is reported
C5_HeightIsNegatedProminence ==
    MinDone =>
        /\ min_res.idx.nan => min_res.height = 0
        /\ ~min_res.idx.nan =>
               /\ min_res.height = -ProminenceAt(min_res.idx.v)
               /\ min_res.height <= -MinProminence

\* the lowest of several minima is not the first one and has another prominence
C5_Witness ==
    /\ MinDone
    /\ Len(local_minima.peaks) > 1
    /\ ~min_res.idx.nan
    /\ min_res.idx.v # local_minima.peaks[1]
    /\ ProminenceAt(min_res.idx.v) # local_minima.prominences[1]
    /\ min_res.height < 0

\* the left base find_peaks gave for the detected minimum at index m
LeftBaseOf(m) ==
    LET k == CHOOSE k \in 1..Len(local_minima.peaks) : local_minima.peaks[k] = m
    IN  local_minima.left_bases[k]

Reported == MinDone /\ min_res.raised = "none" /\ ~min_res.idx.nan

\* C23: the left base index returned with a reported minimum is the left
\* base of the prominence region of that minimum: it lies strictly left of
\* the minimum and no other detected minimum lies between the two
C23_LeftBaseOfReportedMinimum ==
    Reported =>
        LET m == min_res.idx.v
        IN  /\ min_res.left = Num(LeftBaseOf(m))
            /\ min_res.left.v < m
            /\ \A q \in DetectedSet : ~(min_res.left.v < q /\ q < m)

\* C24 as stated: a reported minimum, the lowest of several included, has an
\* index strictly greater than 5
C24_ReportedBeyondEdge == Reported => min_res.idx.v > EdgeExclusionIndex

\* C24 amended: the exclusion rule applies to a single detected minimum only:
\* reported alone, a minimum has an index strictly greater than 5; with
\* several detected minima one of them is always reported, whatever its index
C24_EdgeRuleForSingleMinimum ==
    MinDone =>
        /\ (Len(local_minima.peaks) = 1 /\ ~min_res.idx.nan) =>
               min_res.idx.v > EdgeExclusionIndex
        /\ Len(local_minima.peaks) > 1 =>
               /\ min_res.raised = "none"
               /\ ~min_res.idx.nan
               /\ min_res.idx.v \in DetectedSet

\* the lowest of several detected minima is reported at an index <= 5
C24_Witness ==
    /\ Reported
    /\ Len(local_minima.peaks) > 1
    /\ min_res.idx.v <= EdgeExclusionIndex

----------------------------------------------------------------------------
(* Properties of get_coord_trap_outside_structure, under SpecBoundary      *)

BoundaryDone == pc = "done" /\ out.raised # "pending"

NoStructureMode == axis_is_trapping /\ surface = "NoSurface"
StructureMode == axis_is_trapping /\ surface # "NoSurface"

\* the peaks of the negated proximity curve of height >= 10
ProximityPeaks == peaks_CP(CP)

\* samples first .. first + count - 1 (0-based) of a, each minus c
Window(a, first, count, c) == [i \in 1..count |-> a[first + i] - c]

\* C6: in structure mode more than two proximity peaks make the call fail
\* with ValueError and return nothing
C6_TooManyPeaksRaises ==
    (BoundaryDone /\ StructureMode /\ Len(ProximityPeaks) > 2) =>
        /\ out.raised = "ValueError"
        /\ out.ret = <<>>

C6_Witness ==
    /\ BoundaryDone
    /\ StructureMode
    /\ Len(ProximityPeaks) = 3
    /\ out.raised = "ValueError"

C8_ClosedInterval ==
    (BoundaryDone /\ StructureMode /\ Len(ProximityPeaks) = 2) =>
        LET p1 == ProximityPeaks[1]
            p2 == ProximityPeaks[2]
        IN  /\ out.raised = "none"
            /\ out.ret[2] = At(coord, p1 - 1)
            /\ out.ret[3] = Window(coord, p1, p2 - p1 + 1, out.ret[2])
            /\ out.ret[4] = Window(trap, p1, p2 - p1 + 1, 0)

\* C8 amended: with two proximity peaks p1 < p2 the edge is axis[p1 - 1] and
\* the outside axis and curve are the samples p1 .. p2 - 1 (p2 excluded), the
\* axis minus the edge; axis and curve cover the same indices
C8_HalfOpenInterval ==
    (BoundaryDone /\ StructureMode /\ Len(ProximityPeaks) = 2) =>
        LET p1 == ProximityPeaks[1]
            p2 == ProximityPeaks[2]
        IN  /\ out.raised = "none"
            /\ p1 < p2
            /\ out.ret[2] = At(coord, p1 - 1)
            /\ out.ret[3] = Window(coord, p1, p2 - p1, out.ret[2])
            /\ out.ret[4] = Window(trap, p1, p2 - p1, 0)
            /\ Len(out.ret[3]) = Len(out.ret[4])

C8_Witness ==
    /\ BoundaryDone
    /\ StructureMode
    /\ Len(ProximityPeaks) = 2
    /\ out.raised = "none"
    /\ Len(out.ret[3]) = ProximityPeaks[2] - ProximityPeaks[1]
    /\ Len(out.ret[3]) > 2

\* C9 as stated: with one proximity peak p the edge is axis[p - 1], p - 1 >= 0,
\* the outside axis and curve are the samples from p to the end, and the
\* index returned by the call is p
C9_ReturnsEdgeIndex ==
    (BoundaryDone /\ StructureMode /\ Len(ProximityPeaks) = 1) =>
        LET p == ProximityPeaks[1]
        IN  /\ out.raised = "none"
            /\ p - 1 >= 0
            /\ out.ret[2] = At(coord, p - 1)
            /\ out.ret[3] = Window(coord, p, Len(coord) - p, out.ret[2])
            /\ out.ret[4] = Window(trap, p, Len(trap) - p, 0)
            /\ out.ret[1] = p

\* C9 amended: with one proximity peak p the edge is axis[p - 1], p - 1 >= 0,
\* the outside axis and curve are the samples from p to the end, the axis
\* minus the edge; the edge index p stays in the local index_edge, and the
\* index the call returns is the mf index
C9_OnePeak ==
    (BoundaryDone /\ StructureMode /\ Len(ProximityPeaks) = 1) =>
        LET p == ProximityPeaks[1]
        IN  /\ out.raised = "none"
            /\ p - 1 >= 0
            /\ out.ret[2] = At(coord, p - 1)
            /\ out.ret[3] = Window(coord, p, Len(coord) - p, out.ret[2])
            /\ out.ret[4] = Window(trap, p, Len(trap) - p, 0)
            /\ index_edge = <<p>>
            /\ out.ret[1] = mf_index

C9_Witness ==
    /\ BoundaryDone
    /\ StructureMode
    /\ Len(ProximityPeaks) = 1
    /\ out.raised = "none"
    /\ index_edge = <<ProximityPeaks[1]>>
    /\ ProximityPeaks[1] > 1
    /\ out.ret[1] # ProximityPeaks[1]

\* the call truncated the axis: explicit edge, one peak or two peaks
Truncating ==
    \/ NoStructureMode /\ edge_no_surface.given
    \/ StructureMode /\ Len(ProximityPeaks) \in {1, 2}

\* C10: in every truncating mode the outside axis is the axis minus the edge
\* (the edge sits at 0) and holds no negative coordinate
C10_NoNegativeCoordinate ==
    (BoundaryDone /\ Truncating /\ out.raised = "none") =>
        /\ \E k \in 0..Len(coord) :
               out.ret[3] = Window(coord, k, Len(out.ret[3]), out.ret[2])
        /\ \A i \in 1..Len(out.ret[3]) : out.ret[3][i] >= 0

----------------------------------------------------------------------------
(* Properties of get_trapfreq, under SpecFreq                              *)

FreqDone == pc = "done" /\ ndim = 1 /\ freq_out.raised # "pending"

\* what the minimum locator reports on the primary and on the tiled curve
PrimaryMinimum == get_min_trap(y_outside, trap_outside, ndim)
TiledMinimum == get_min_trap(TileAxis3(y_outside), Tile3(trap_outside), ndim)

\* C11: when the minimum locator reports 'none' on the primary curve and on
\* the tiled curve, get_trapfreq returns 0 and raises nothing
C11_NoMinimumReturnsZero ==
    (FreqDone /\ PrimaryMinimum.pos.nan /\ TiledMinimum.pos.nan) =>
        /\ freq_out.raised = "none"
        /\ freq_out.value = Num(0)

\* C12: get_trapfreq always returns a non-negative real number, never NaN
C12_FrequencyNonNegative ==
    FreqDone =>
        /\ freq_out.raised = "none"
        /\ ~freq_out.value.nan
        /\ freq_out.value.v >= 0

\* C13: with no usable minimum on the primary curve and one on the tiled
\* curve, get_trapfreq returns a non-zero frequency, the curvature being read
\* at the primary sample that corresponds to the minimum of the tiled curve
C13_TiledMinimumFrequency ==
    (FreqDone /\ PrimaryMinimum.pos.nan /\ ~TiledMinimum.pos.nan) =>
        /\ freq_out.raised = "none"
        /\ freq_out.value # Num(0)
        /\ freq_out.value =
               FreqOf(At(polyfit_env.der2_fit,
                         TiledMinimum.idx.v % Len(trap_outside)))

\* a minimum is located, on the primary or on the tiled curve
MinimumLocated == ~PrimaryMinimum.pos.nan \/ ~TiledMinimum.pos.nan

\* C20: a singular fit never reaches the caller: once a minimum is located
\* the degree-40 fit is tried first, the degree-20 fit only after the
\* degree-40 fit failed as singular, and a frequency is returned in any case
C20_SingularFitNotSurfaced ==
    (FreqDone /\ MinimumLocated) =>
        /\ freq_out.raised = "none"
        /\ freq_out.degrees =
               IF polyfit_env.fit40 = "LinAlgError" THEN <<40, 20>> ELSE <<40>>

----------------------------------------------------------------------------
(* Properties of optimize, under SpecSweep                                 *)

SweepDone == pc = "done"

\* the number of values of np.arange(lo, hi, step)
RangeLen(lo, hi, step) == IF hi <= lo THEN 0 ELSE ((hi - lo - 1) \div step) + 1

SweepShape == <<RangeLen(args.Pmin1, args.Pmax1, args.Pstep1),
                RangeLen(args.Pmin2, args.Pmax2, args.Pstep2)>>

GridCells(shape) == (0..(shape[1] - 1)) \X (0..(shape[2] - 1))

HasNaN(g) == \E ij \in DOMAIN g.cells : g.cells[ij].nan

\* C14: when the sweep returns, it returns four grids (position, depth,
\* height, frequency), each of shape (len(controlRange1), len(controlRange2)),
\* and no entry of any of them is NaN
C14_FourGridsNoNaN ==
    SweepDone =>
        /\ Len(opt_out.ret) = 4
        /\ \A k \in 1..4 :
               /\ opt_out.ret[k].shape = SweepShape
               /\ DOMAIN opt_out.ret[k].cells = GridCells(SweepShape)
               /\ ~HasNaN(opt_out.ret[k])

\* a returned sweep of two rows in which a cell had no minimum (NaN position)
\* and another cell had a NaN frequency
C14_Witness ==
    /\ SweepDone
    /\ SweepShape[1] >= 2 /\ SweepShape[2] >= 1
    /\ HasNaN(sw.res_pos)
    /\ \E ij \in DOMAIN sw.res_freq.cells :
           sw.res_freq.cells[ij].nan /\ ~sw.res_pos.cells[ij].nan

NonZero(g) == \E ij \in DOMAIN g.cells : g.cells[ij] # Num(0)

\* C15: a second call of optimize with the same arguments, on the same
\* provider, ends as the first did: the same four grids, whatever powers the
\* first call left in the provider
C15_SecondRunIdentical ==
    (run = 2 /\ pc \in {"done", "raised"}) => opt_out = first_out

\* the second call has returned grids with a minimum in some cell, and began
\* with powers in the provider that differ from those before the first call
\* and from those of its own first cell
C15_Witness ==
    /\ run = 2 /\ SweepDone
    /\ Len(filled) >= 2
    /\ NonZero(opt_out.ret[2])
    /\ powers # InitialPowers
    /\ powers # <<At(sw.Prange1, 0), At(sw.Prange2, 0)>>

\* the cells whose curve gave no usable minimum: get_min_trap returned the
\* none result, which alone has a NaN position
NoMinimumCells == {ij \in DOMAIN sw.res_pos.cells : sw.res_pos.cells[ij].nan}

FlatCurve(U) == \A k \in 1..Len(U) : U[k] = 0
FlatProvider == FlatCurve(simul.U1) /\ FlatCurve(simul.U2)

\* C16: in the grids returned, a cell whose curve gave no usable minimum has
\* position, depth, height and frequency 0; a provider whose curve is flat
\* for all powers makes the sweep return four all-zero grids, without raising
C16_NoMinimumCellsAreZero ==
    /\ SweepDone =>
           \A ij \in NoMinimumCells : \A k \in 1..4 :
               opt_out.ret[k].cells[ij] = Num(0)
    /\ FlatProvider =>
           /\ pc # "raised"
           /\ SweepDone => \A k \in 1..4 : ~NonZero(opt_out.ret[k])

\* a returned sweep in which one cell had no usable minimum on a curve that
\* is not flat, and another cell had a minimum
C16_Witness ==
    /\ SweepDone
    /\ \E ij \in NoMinimumCells :
           LET P == <<At(sw.Prange1, ij[1]), At(sw.Prange2, ij[2])>>
           IN  ~FlatCurve(total_potential(simul, P))
    /\ NoMinimumCells # DOMAIN sw.res_pos.cells

\* the i-th largest value of controlRange1, the j-th smallest of
\* controlRange2, both counted from 0
LargestOfRange1(i) ==
    args.Pmin1 + (SweepShape[1] - 1 - i) * args.Pstep1
SmallestOfRange2(j) == args.Pmin2 + j * args.Pstep2

\* C17: the k-th cell stored is cell [i, j] in row-by-row order, and its curve
\* was read with the i-th largest value of controlRange1 and the j-th smallest
\* value of controlRange2 set; a sweep that returns has stored every cell
C17_DescendingThenAscending ==
    /\ \A k \in 1..Len(filled) :
           LET i == (k - 1) \div SweepShape[2]
               j == (k - 1) % SweepShape[2]
           IN  filled[k] = <<i, j, LargestOfRange1(i), SmallestOfRange2(j)>>
    /\ SweepDone => Len(filled) = SweepShape[1] * SweepShape[2]

\* a returned sweep of at least two rows and two columns whose first range
\* does not start at 0
C17_Witness ==
    /\ SweepDone
    /\ SweepShape[1] >= 2 /\ SweepShape[2] >= 2
    /\ args.Pmin1 = 1
    /\ Len(filled) >= 4

\* the sweep never ends with an exception
SweepNotAborted == opt_out.raised \in {"pending", "none"}

\* C18: a fit that cannot be computed in one cell does not abort the sweep
\* (the cell's frequency is recorded as 0 and the sweep goes on to return
\* the four grids)
C18_CellFailureDoesNotAbort ==
    /\ SweepNotAborted
    /\ pc # "raised"

InRange(g) ==
    \A ij \in DOMAIN g.cells :
        ~g.cells[ij].nan /\ g.cells[ij].v >= 0 /\ g.cells[ij].v <= OutlierLimit

\* the cell stored by the latest pass of the loop
LastCell == <<filled[Len(filled)][1], filled[Len(filled)][2]>>

\* what the claim stores for a raw value v
ClaimedEntry(v) == IF Abs(v) > OutlierLimit THEN Num(0) ELSE Num(Abs(v))

\* C19: the depth and height stored for a cell are 0 when the raw magnitude
\* is above 10, and the magnitude otherwise (10 itself is kept); every entry
\* of the returned depth and height grids lies in [0, 10]
C19_DepthHeightWithinLimit ==
    /\ (pc \in {"loop", "done"} /\ Len(filled) > 0) =>
           /\ sw.res_depth.cells[LastCell] = ClaimedEntry(sw.depth)
           /\ sw.res_height.cells[LastCell] = ClaimedEntry(sw.height)
    /\ SweepDone => InRange(opt_out.ret[2]) /\ InRange(opt_out.ret[3])

\* a returned sweep whose last cell had a raw depth above 10 (stored as 0),
\* another cell a depth of exactly 10 (kept) and a third one a depth between
C19_Witness ==
    /\ SweepDone
    /\ Len(filled) > 0
    /\ Abs(sw.depth) > OutlierLimit
    /\ opt_out.ret[2].cells[LastCell] = Num(0)
    /\ \E ij \in DOMAIN opt_out.ret[2].cells :
           opt_out.ret[2].cells[ij] = Num(OutlierLimit)
    /\ \E ij \in DOMAIN opt_out.ret[2].cells :
           /\ opt_out.ret[2].cells[ij].v > 0
           /\ opt_out.ret[2].cells[ij].v < OutlierLimit

\* the powers of the k-th cell of the sweep in row-by-row order, k from 1
PairOfCell(k) ==
    <<LargestOfRange1((k - 1) \div SweepShape[2]),
      SmallestOfRange2((k - 1) % SweepShape[2])>>

\* C21: the calls made to the provider are, cell after cell, one set_powers
\* with the pair of the cell and then one total_potential, made while that
\* pair is set; the curve analysed in a cell is the potential for its pair
C21_SetPowersThenPotential ==
    pc \in {"loop", "done", "raised"} =>
        /\ Len(calls) = 2 * (Len(filled) + IF pc = "raised" THEN 1 ELSE 0)
        /\ \A k \in 1..(Len(calls) \div 2) :
               /\ calls[2 * k - 1] = [op |-> "set_powers",
                                      powers |-> PairOfCell(k)]
               /\ calls[2 * k] = [op |-> "total_potential",
                                  powers |-> PairOfCell(k)]
        /\ Len(filled) > 0 =>
               sw.pot = SliceFrom(total_potential(simul,
                                      PairOfCell(Len(filled))), sw.yidx)

\* the second sweep has returned after four cells or more, the curve of its
\* last cell is not flat and differs from the curve for the powers the
\* provider held before the sweep
C21_Witness ==
    /\ run = 2 /\ SweepDone
    /\ Len(filled) >= 4
    /\ ~FlatCurve(sw.pot)
    /\ Len(first_calls) = Len(calls)
    /\ sw.pot # SliceFrom(total_potential(simul, InitialPowers), sw.yidx)

\* the last pass of the loop reported a minimum with a left base, and fitted
FittedCell ==
    /\ pc \in {"loop", "done"}
    /\ Len(filled) > 0
    /\ ~sw.height_idx.nan

\* C27: in a cell where a minimum with a left base is reported, the fit
\* window [idx_left, idx_right) is not empty, contains the index of the
\* reported minimum and holds at least 3 samples
C27_FitWindowPopulated ==
    FittedCell =>
        LET idx_left == sw.fit_range[1]
            idx_right == sw.fit_range[2]
        IN  /\ idx_left < idx_right
            /\ idx_left <= sw.min_idx.v /\ sw.min_idx.v < idx_right
            /\ idx_right - idx_left >= 3

----------------------------------------------------------------------------
(* Properties of optimize_gui, under SpecGui                               *)

GuiDone == pc = "gui_done"

\* the progress events emitted so far
Progress == SelectSeq(signals, LAMBDA e : e.name = "_signal")

GridsOf(l) == <<l.res_pos, l.res_depth, l.res_height, l.res_freq>>

\* C22: the k-th progress event of optimize_gui is emitted when exactly the
\* cells of the first k rows are stored and no call for a cell of the next
\* row has been made; a sweep that returns has emitted one per value of
\* controlRange1; emitting a progress event changes no grid entry
C22_OneProgressPerRow ==
    /\ [](/\ \A k \in 1..Len(Progress) :
                /\ Progress[k].stored = k * SweepShape[2]
                /\ Progress[k].made = 2 * k * SweepShape[2]
          /\ GuiDone => Len(Progress) = SweepShape[1])
    /\ [][Len(signals') > Len(signals) /\ pc' # "gui_done"
              => GridsOf(sw') = GridsOf(sw)]_vars

\* optimize_gui has returned from a sweep of two rows or more and two
\* columns or more, in which some cell has a minimum
C22_Witness ==
    /\ GuiDone
    /\ SweepShape[1] >= 2 /\ SweepShape[2] >= 2
    /\ Len(Progress) >= 2
    /\ NonZero(opt_out.ret[2])

\* C25: when `finished` is emitted, self.optim_res already holds the four
\* sanitized grids of the sweep that just completed
C25_ResultsSetBeforeFinished ==
    at_finished.emitted =>
        /\ at_finished.seen.set
        /\ at_finished.seen.value = opt_out.ret

\* C26: optimize_gui, called with the arguments of a call of optimize on the
\* same provider, makes the same calls to the provider in the same order and
\* ends as optimize did, with the same four grids
C26_GuiEquivalentToOptimize ==
    (run = 2 /\ pc \in {"gui_done", "raised"}) =>
        /\ calls = first_calls
        /\ opt_out = first_out

\* optimize_gui has returned after four cells or more, some with a minimum;
\* it emitted signals and assigned self.optim_res, which optimize did not
C26_Witness ==
    /\ run = 2 /\ GuiDone
    /\ Len(filled) >= 4
    /\ Len(calls) >= 8
    /\ NonZero(opt_out.ret[1])
    /\ Len(signals) >= 3
    /\ optim_res.set /\ optim_res.value = first_out.ret

====
